---- MODULE Spec2Model ----
(***************************************************************************)
(* Usage & billing aggregation of claude-tracking: report.py               *)
(* (load_sessions, summarize, compute_month_expenses,                      *)
(* load_project_registry), update_dashboard.py (load_pricing,              *)
(* compute_token_cost, generate_readme) and log_session.py (the            *)
(* session-completion handler and the registry upsert).                    *)
(*                                                                         *)
(* Text values (dates, months, labels, CSV cells) are sequences of         *)
(* one-character strings, so that slicing, prefix tests and parsing are    *)
(* modelled by what they do.  A missing JSON field and the empty string    *)
(* are both the empty sequence: the code only tests them for truthiness.   *)
(* Currency amounts are integer cents.                                     *)
(***************************************************************************)
EXTENDS Integers, Sequences, FiniteSets, TLC

\* billing: the expense list of a project's billing.json; period: the index
\* of the calendar month of the last report (0 before the first); month and
\* result: the month argument and the value of the last call of
\* compute_month_expenses; history: the values of all calls so far, the k-th
\* being the one for period k.
VARIABLES billing, period, month, result, history

\* logfile: sessions.csv, absent or the rows under its header; sessions and
\* totals: the rows load_sessions returned to the last report and their
\* summary; shared_cost and allocation: the shared cost last allocated over
\* the totals, and its shares.
VARIABLES logfile, sessions, totals, shared_cost, allocation

expense_vars == <<billing, period, month, result, history>>

usage_vars == <<logfile, sessions, totals, shared_cost, allocation>>

\* pricing_doc: pricing.json; pricing: what load_pricing made of it for the
\* last dashboard; costs: the estimated cost of each project of that
\* dashboard, in units of 10^-8 dollar.
VARIABLES pricing_doc, pricing, costs

dashboard_vars == <<pricing_doc, pricing, costs>>

\* sessions_csv: sessions.csv as lines of cells, the header included;
\* projects_json: the registry file; today: the day of the clock; pc: where
\* the session-completion handler is; run: the number of handler runs
\* started; event: the event of the run; session_row: the row it built; upsert:
\* how its registry upsert went; written: the records appended so far, each
\* with its run; upserted: the runs whose upsert was attempted; finished:
\* the runs that ended normally; report: what the last report found;
\* registry: the mapping load_project_registry returned last.
VARIABLES sessions_csv, projects_json, today, pc, run, event, session_row, upsert,
          written, upserted, finished, report, registry

session_vars ==
    <<sessions_csv, projects_json, today, pc, run, event, session_row, upsert,
      written, upserted, finished, report, registry>>

vars == <<expense_vars, usage_vars, dashboard_vars, session_vars>>

\* ------------------------------------------------------------------ bounds
\* Longest expense list of a billing document.
MaxExpenses == 2
\* Number of consecutive target periods, the first being 2024-10.
NumPeriods == 14
\* Most rows of the usage log.
MaxSessions == 3

\* The handler runs of a behaviour, the days of the clock, and the rows of
\* a log that the handler did not write.
MaxRuns == 2

NumDays == 2

MaxLogRows == 3

\* ------------------------------------------------------------------- text
Digit == <<"0", "1", "2", "3", "4", "5", "6", "7", "8", "9">>

DigitChars == {Digit[i] : i \in 1..10}

DigitVal(c) == (CHOOSE i \in 1..10 : Digit[i] = c) - 1

Min(a, b) == IF a < b THEN a ELSE b

\* Python s[a:b] for 0 <= a <= b.
Slice(s, a, b) ==
    IF a >= Min(b, Len(s)) THEN <<>> ELSE SubSeq(s, a + 1, Min(b, Len(s)))

\* Python s.startswith(p).
startswith(s, p) == Len(p) <= Len(s) /\ SubSeq(s, 1, Len(p)) = p

AllDigits(s) == \A i \in 1..Len(s) : s[i] \in DigitChars

\* Python int(s) of a non-empty string of decimal digits.
RECURSIVE int(_)
int(s) ==
    IF Len(s) = 0 THEN 0
    ELSE int(SubSeq(s, 1, Len(s) - 1)) * 10 + DigitVal(s[Len(s)])

\* Python str(n) of a natural number.
RECURSIVE str(_)
str(n) ==
    IF n < 10 THEN <<Digit[n + 1]>>
    ELSE str(n \div 10) \o <<Digit[(n % 10) + 1]>>

Pad2(n) == <<Digit[(n \div 10) + 1], Digit[(n % 10) + 1]>>

\* strftime("%Y-%m") of a date in years 1000..9999.
FormatMonth(y, m) == str(y) \o <<"-">> \o Pad2(m)

\* An ISO calendar day, as the billing documents and the log write it.
Iso(y, m, d) == FormatMonth(y, m) \o <<"-">> \o Pad2(d)

\* format(amount, ".2f") of an amount in cents.
fmt2f(cents) == str(cents \div 100) \o <<".">> \o Pad2(cents % 100)

\* datetime(2000, n, 1).strftime("%b")
MonthAbbr ==
    <<"Jan", "Feb", "Mar", "Apr", "May", "Jun",
      "Jul", "Aug", "Sep", "Oct", "Nov", "Dec">>

\* datetime.strptime(s, "%Y-%m-%d"): %Y is four digits, %m is 1[0-2], 0[1-9]
\* or [1-9], %d is 3[01], [12]\d, 0[1-9] or [1-9], and nothing may remain.
\* ok = FALSE is ValueError.  Every call of the code passes a day of "01",
\* so the day is not checked against the length of the month.
strptime(s) ==
    LET n == Len(s)
        yOk == n >= 5 /\ AllDigits(SubSeq(s, 1, 4)) /\ s[5] = "-"
                /\ int(SubSeq(s, 1, 4)) >= 1
        m2 == n >= 8 /\ AllDigits(SubSeq(s, 6, 7)) /\ s[8] = "-"
                /\ int(SubSeq(s, 6, 7)) \in 1..12
        m1 == n >= 7 /\ s[6] \in DigitChars \ {"0"} /\ s[7] = "-"
        mEnd == IF m2 THEN 8 ELSE 7
        rest == IF n > mEnd THEN SubSeq(s, mEnd + 1, n) ELSE <<>>
        dOk == \/ Len(rest) = 2 /\ AllDigits(rest) /\ int(rest) \in 1..31
               \/ Len(rest) = 1 /\ rest[1] \in DigitChars \ {"0"}
    IN  IF yOk /\ (m2 \/ m1) /\ dOk
        THEN [ok |-> TRUE, year |-> int(SubSeq(s, 1, 4)),
              month |-> int(SubSeq(s, 6, mEnd - 1)), day |-> int(rest)]
        ELSE [ok |-> FALSE, year |-> 0, month |-> 0, day |-> 0]

\* datetime a < b
DtLess(a, b) ==
    \/ a.year < b.year
    \/ a.year = b.year /\ a.month < b.month
    \/ a.year = b.year /\ a.month = b.month /\ a.day < b.day

\* ------------------------------------------------- compute_month_expenses
\* The value of a call: the returned list, or an exception that left it.
Returned(rows) == [raised |-> FALSE, rows |-> rows]

Raised == [raised |-> TRUE, rows |-> <<>>]

Entry(desc, label, due, note) ==
    [description |-> desc, rate_label |-> label, amount_due |-> due, note |-> note]

\* one_time with the date compared by year only.
one_time_by_year(exp, mon) ==
    IF startswith(exp.date, Slice(mon, 0, 4))
    THEN Returned(<<Entry(exp.description, <<"one-time">>, exp.amount,
                          <<"[">> \o exp.date \o <<"]">>)>>)
    ELSE Returned(<<>>)

\* The branch for exp_type == "one-time": one row when the date string
\* starts with the month string, none otherwise.
one_time(exp, mon) ==
    IF startswith(exp.date, mon)
    THEN Returned(<<Entry(exp.description, <<"one-time">>, exp.amount,
                          <<"[">> \o exp.date \o <<"]">>)>>)
    ELSE Returned(<<>>)

\* start_month of line 168: the month count of start[:4] and start[5:7], or
\* 0 without a start_date.
start_month_of(start) ==
    IF start # <<>>
    THEN int(Slice(start, 0, 4)) * 12 + int(Slice(start, 5, 7))
    ELSE 0

\* start_mo of line 189: the start month number, or the target month number
\* without a start_date.
start_mo_of(start, month_num) ==
    IF start # <<>> THEN int(Slice(start, 5, 7)) ELSE month_num

\* due_this_month with monthly expenses due in the start month of each year only.
due_monthly_once(freq, diff, month_num, start_mo) ==
    CASE freq = "monthly" -> month_num = start_mo
      [] freq = "quarterly" -> diff % 3 = 0
      [] freq = "yearly" -> month_num = start_mo
      [] OTHER -> FALSE

\* due_this_month with quarterly expenses due in the calendar quarters' first
\* months (January, April, July, October).
due_calendar_quarter(freq, diff, month_num, start_mo) ==
    CASE freq = "monthly" -> TRUE
      [] freq = "quarterly" -> month_num % 3 = 1
      [] freq = "yearly" -> month_num = start_mo
      [] OTHER -> FALSE

\* due_this_month of the three frequency branches; an unknown frequency
\* takes no branch and stays False.
due_this_month(freq, diff, month_num, start_mo) ==
    CASE freq = "monthly" -> TRUE
      [] freq = "quarterly" -> diff % 3 = 0
      [] freq = "yearly" -> month_num = start_mo
      [] OTHER -> FALSE

\* freq_label: f"${amount:.2f}/mo", "/qtr" or "/yr".
freq_label(freq, amount) ==
    CASE freq = "monthly" -> <<"$">> \o fmt2f(amount) \o <<"/mo">>
      [] freq = "quarterly" -> <<"$">> \o fmt2f(amount) \o <<"/qtr">>
      [] freq = "yearly" -> <<"$">> \o fmt2f(amount) \o <<"/yr">>
      [] OTHER -> <<>>

\* next_note with months_until taken as the months since the last due month.
next_note_elapsed(diff, month_num) ==
    LET months_until == diff % 3
        next_month_num == ((month_num - 1 + months_until) % 12) + 1
    IN  <<"[next: ", MonthAbbr[next_month_num], "]">>

\* The note of a quarterly expense that is not due: the month months_until
\* after the target month, wrapping after December.
next_note(diff, month_num) ==
    LET months_until == 3 - (diff % 3)
        next_month_num == ((month_num - 1 + months_until) % 12) + 1
    IN  <<"[next: ", MonthAbbr[next_month_num], "]">>

\* renews_note naming the month after the start month.
renews_note_next(start_mo) == <<"[renews ", MonthAbbr[(start_mo % 12) + 1], "]">>

\* The note of a yearly expense that is not due.
renews_note(start_mo) == <<"[renews ", MonthAbbr[start_mo], "]">>

\* The row of a recurring expense that passed the window check.
recurring_row(exp, month_year, month_num) ==
    LET start == exp.start_date
        freq == exp.frequency
        diff == (month_year * 12 + month_num) - start_month_of(start)
        start_mo == start_mo_of(start, month_num)
        due == due_this_month(freq, diff, month_num, start_mo)
        renew_note ==
            CASE freq = "quarterly" /\ ~due -> next_note(diff, month_num)
              [] freq = "yearly" /\ ~due -> renews_note(start_mo)
              [] OTHER -> <<>>
    IN  Entry(exp.description, freq_label(freq, exp.amount),
              IF due THEN exp.amount ELSE 0, renew_note)

\* first_of_month parsing the whole date, its day included.
first_of_month_exact(date) == strptime(date)

\* datetime.strptime(date[:7] + "-01", "%Y-%m-%d"): the first day of the
\* month of a start_date or end_date.
first_of_month(date) == strptime(Slice(date, 0, 7) \o <<"-", "0", "1">>)

\* already_ended with the end month itself outside the window.
already_ended_exclusive(month_start, end_dt) == ~DtLess(month_start, end_dt)

\* month_start > end_dt
already_ended(month_start, end_dt) == DtLess(end_dt, month_start)

\* The branch for exp_type == "recurring": the window bounds, each date
\* parsed only when present and only when the check before it did not
\* already skip the expense.
recurring(exp, month_start) ==
    LET start == exp.start_date
        end == exp.end_date
        start_dt == first_of_month(start)
        end_dt == first_of_month(end)
    IN  IF start # <<>> /\ ~start_dt.ok THEN Raised
        ELSE IF start # <<>> /\ DtLess(month_start, start_dt) THEN Returned(<<>>)
        ELSE IF end # <<>> /\ ~end_dt.ok THEN Raised
        ELSE IF end # <<>> /\ already_ended(month_start, end_dt) THEN Returned(<<>>)
        ELSE Returned(<<recurring_row(exp, month_start.year, month_start.month)>>)

\* One iteration of the loop over billing["expenses"].
resolve_expense(exp, mon, month_start) ==
    CASE exp.type = "one-time" -> one_time(exp, mon)
      [] exp.type = "recurring" -> recurring(exp, month_start)
      [] OTHER -> Returned(<<>>)

RECURSIVE resolve_from(_, _, _, _, _)
resolve_from(expenses, i, mon, month_start, rows) ==
    IF i > Len(expenses) THEN Returned(rows)
    ELSE LET r == resolve_expense(expenses[i], mon, month_start)
         IN  IF r.raised THEN Raised
             ELSE resolve_from(expenses, i + 1, mon, month_start, rows \o r.rows)

compute_month_expenses(expenses, mon) ==
    LET month_start == strptime(mon \o <<"-", "0", "1">>)
    IN  IF ~month_start.ok THEN Raised
        ELSE resolve_from(expenses, 1, mon, month_start, <<>>)

\* ------------------------------------------------------------- the inputs
Missing == <<>>

\* A start_date that is not an ISO day.
MalformedDate == <<"1", "1", "/", "2", "0", "/", "2", "0", "2", "4">>

OneTime(amount, date) ==
    [type |-> "one-time", description |-> "", amount |-> amount, date |-> date,
     frequency |-> "", start_date |-> Missing, end_date |-> Missing]

Recurring(amount, freq, start, end) ==
    [type |-> "recurring", description |-> "", amount |-> amount, date |-> Missing,
     frequency |-> freq, start_date |-> start, end_date |-> end]

\* The calendar days <<year, month, day>> the billing documents name.
StartA == <<2024, 11, 20>>
StartB == <<2025, 2, 1>>
EndA == <<2025, 8, 31>>
PaidA == <<2024, 12, 31>>

IsoOf(t) == Iso(t[1], t[2], t[3])

\* The expenses of the model: one-time expenses of two months; recurring
\* expenses of each frequency with a start_date and without one, with and
\* without an end_date, of a positive amount and of amount 0, and one with a
\* malformed start_date.
Expenses ==
    {OneTime(50000, IsoOf(PaidA)),
     OneTime(50000, IsoOf(StartB)),
     Recurring(30000, "monthly", IsoOf(StartA), Missing),
     Recurring(30000, "monthly", IsoOf(StartA), IsoOf(EndA)),
     Recurring(30000, "monthly", Missing, Missing),
     Recurring(30000, "monthly", MalformedDate, Missing),
     Recurring(30000, "quarterly", IsoOf(StartA), Missing),
     Recurring(30000, "quarterly", IsoOf(StartA), IsoOf(EndA)),
     Recurring(0, "quarterly", IsoOf(StartA), Missing),
     Recurring(30000, "quarterly", Missing, Missing),
     Recurring(30000, "yearly", IsoOf(StartA), Missing),
     Recurring(0, "yearly", IsoOf(StartA), Missing),
     Recurring(30000, "yearly", Missing, Missing)}

Descriptions == <<"e1", "e2", "e3", "e4">>

\* The expense lists of a billing document: every list of up to MaxExpenses
\* expenses, the i-th described as Descriptions[i].
Billings ==
    {[i \in 1..Len(b) |-> [b[i] EXCEPT !.description = Descriptions[i]]] :
        b \in UNION {[1..n -> Expenses] : n \in 0..MaxExpenses}}

\* The k-th period as <<year, month number>>; the first target period,
\* k = 1, is 2024-10.
PeriodAt(k) == <<(2024 * 12 + 8 + k) \div 12, ((2024 * 12 + 8 + k) % 12) + 1>>

\* strftime("%Y-%m") of the target periods.
PeriodTexts ==
    [k \in 1..NumPeriods |-> FormatMonth(PeriodAt(k)[1], PeriodAt(k)[2])]

PeriodText(k) == PeriodTexts[k]

\* -------------------------------------------------------------- the usage log
\* A CSV cell holding a number: str(n) as csv.DictWriter writes it.
Cell(n) == str(n)

\* The token cells <<input, output, cache_creation, cache_read>> of the rows
\* of the model; an empty cell is the empty string.
UsageCells ==
    {<<Cell(100), Cell(50), Cell(0), Cell(0)>>,
     <<Cell(300), Cell(100), Cell(7), Cell(9)>>,
     <<<<>>, <<>>, <<>>, <<>>>>}

ProjectCodes == {"", "A", "B"}

\* A row of sessions.csv as csv.DictReader returns it, every value a string.
LogRow(date, code, u) ==
    [date |-> date, project_code |-> code, input_tokens |-> u[1],
     output_tokens |-> u[2], cache_creation_tokens |-> u[3],
     cache_read_tokens |-> u[4]]

\* The rows of the model: the sessions without token counts are of July
\* 2025, the others of June.
LogRows ==
    {LogRow(IF u[1] = <<>> THEN Iso(2025, 7, 1) ELSE Iso(2025, 6, 30), c, u) :
        c \in ProjectCodes, u \in UsageCells}

NoLog == [exists |-> FALSE, rows |-> <<>>]

LogFiles ==
    {NoLog} \cup {[exists |-> TRUE, rows |-> r] :
                    r \in UNION {[1..n -> LogRows] : n \in 0..MaxSessions}}

\* The month filters of a report: None (--all) or a YYYY-MM string.
MonthFilters == {<<>>, FormatMonth(2025, 6), FormatMonth(2025, 7)}

\* load_sessions(month): no rows without a log; the rows of the month when a
\* month is given.
load_sessions(log, mon) ==
    IF ~log.exists THEN <<>>
    ELSE IF mon # <<>> THEN SelectSeq(log.rows, LAMBDA r : startswith(r.date, mon))
    ELSE log.rows

\* int(row.get(field) or 0) of a cell that is empty or decimal digits.
int_or_0(cell) == IF cell = <<>> THEN 0 ELSE int(cell)

\* The fresh value of the defaultdict.
ZeroTotals ==
    [sessions |-> 0, input_tokens |-> 0, output_tokens |-> 0,
     cache_creation_tokens |-> 0, cache_read_tokens |-> 0]

\* row["project_code"] or "UNKNOWN"
code_of(row) == IF row.project_code = "" THEN "UNKNOWN" ELSE row.project_code

\* fold_row that keeps the token counts of the last row of a tenant.
fold_row_overwrite(tot, row) ==
    LET code == code_of(row)
        t == IF code \in DOMAIN tot THEN tot[code] ELSE ZeroTotals
        t2 == [sessions |-> t.sessions + 1,
               input_tokens |-> int_or_0(row.input_tokens),
               output_tokens |-> int_or_0(row.output_tokens),
               cache_creation_tokens |-> int_or_0(row.cache_creation_tokens),
               cache_read_tokens |-> int_or_0(row.cache_read_tokens)]
    IN  [c \in DOMAIN tot \cup {code} |-> IF c = code THEN t2 ELSE tot[c]]

\* One iteration of the loop of summarize: the totals with one row added.
fold_row(tot, row) ==
    LET code == code_of(row)
        t == IF code \in DOMAIN tot THEN tot[code] ELSE ZeroTotals
        t2 == [sessions |-> t.sessions + 1,
               input_tokens |-> t.input_tokens + int_or_0(row.input_tokens),
               output_tokens |-> t.output_tokens + int_or_0(row.output_tokens),
               cache_creation_tokens |->
                   t.cache_creation_tokens + int_or_0(row.cache_creation_tokens),
               cache_read_tokens |->
                   t.cache_read_tokens + int_or_0(row.cache_read_tokens)]
    IN  [c \in DOMAIN tot \cup {code} |-> IF c = code THEN t2 ELSE tot[c]]

RECURSIVE summarize_from(_, _, _)
summarize_from(rows, i, tot) ==
    IF i > Len(rows) THEN tot
    ELSE summarize_from(rows, i + 1, fold_row(tot, rows[i]))

\* The empty mapping.
NoTotals == [c \in {} |-> ZeroTotals]

\* summarize(sessions): the rows folded in order into per-project totals.
summarize(rows) == summarize_from(rows, 1, NoTotals)

\* ----------------------------------------------------------- the allocator
\* The token volume of a tenant: its input and output tokens.
tenant_tokens(t) == t.input_tokens + t.output_tokens

RECURSIVE SumOver(_, _)
SumOver(f, S) ==
    IF S = {} THEN 0
    ELSE LET c == CHOOSE x \in S : TRUE IN f[c] + SumOver(f, S \ {c})

\* n / d rounded to the nearest integer, halves up.
RoundDiv(n, d) == (2 * n + d) \div (2 * d)

NoAllocation == [shares |-> [c \in {} |-> 0], unallocated |-> 0]

\* allocate that splits the cost evenly over the tenants.
allocate_evenly(cost, tot) ==
    LET volume == [c \in DOMAIN tot |-> tenant_tokens(tot[c])]
        grand == SumOver(volume, DOMAIN tot)
    IN  IF grand = 0
        THEN [shares |-> [c \in DOMAIN tot |-> 0], unallocated |-> cost]
        ELSE [shares |-> [c \in DOMAIN tot |->
                             RoundDiv(cost, Cardinality(DOMAIN tot))],
              unallocated |-> 0]

\* Proportional allocation of a shared cost (in cents) over the tenants'
\* token volumes, each share rounded to the cent; with no volume at all the
\* cost is unallocated.
allocate(cost, tot) ==
    LET volume == [c \in DOMAIN tot |-> tenant_tokens(tot[c])]
        grand == SumOver(volume, DOMAIN tot)
    IN  IF grand = 0
        THEN [shares |-> [c \in DOMAIN tot |-> 0], unallocated |-> cost]
        ELSE [shares |-> [c \in DOMAIN tot |-> RoundDiv(cost * volume[c], grand)],
              unallocated |-> 0]

\* The shared costs of the model, in cents.
SharedCosts == {10000, 9999}

\* ---------------------------------------------------------------- pricing
\* The rate keys, in the order of the defaults of load_pricing.
RateKeys == <<"input", "output", "cache_write", "cache_read">>

\* The default rates per million tokens, in hundredths of a dollar.
defaults == [input |-> 1500, output |-> 7500, cache_write |-> 1875, cache_read |-> 150]

\* JSON values of a rate: a number (in hundredths), a string, null.
JsonNumber(n) == [kind |-> "number", num |-> n, text |-> <<>>]

JsonString(s) == [kind |-> "string", num |-> 0, text |-> s]

JsonNull == [kind |-> "null", num |-> 0, text |-> <<>>]

Converted(n) == [error |-> "", value |-> n]

ValueError == [error |-> "ValueError", value |-> 0]

TypeError == [error |-> "TypeError", value |-> 0]

\* The place of the decimal point of a text, 0 without one.
DotAt(s) == IF \E i \in 1..Len(s) : s[i] = "." THEN CHOOSE i \in 1..Len(s) : s[i] = "." ELSE 0

\* float(text) of a decimal text with at most two decimals, in hundredths;
\* anything else of the model is not a number.
parse_float(s) ==
    LET dot == DotAt(s)
        whole == IF dot = 0 THEN s ELSE SubSeq(s, 1, dot - 1)
        frac == IF dot = 0 THEN <<>> ELSE SubSeq(s, dot + 1, Len(s))
    IN  IF /\ AllDigits(whole) /\ AllDigits(frac)
           /\ Len(whole) + Len(frac) > 0 /\ Len(frac) <= 2
        THEN Converted((IF whole = <<>> THEN 0 ELSE int(whole)) * 100
                       + (IF Len(frac) = 0 THEN 0
                          ELSE IF Len(frac) = 1 THEN int(frac) * 10
                          ELSE int(frac)))
        ELSE ValueError

\* float(v) of a JSON value.
float(v) ==
    IF v.kind = "number" THEN Converted(v.num)
    ELSE IF v.kind = "string" THEN parse_float(v.text)
    ELSE TypeError

NoRates == [k \in {} |-> 0]

PricingReturned(rates) == [raised |-> FALSE, rates |-> rates]

\* An exception that load_pricing does not catch.
PricingRaised == [raised |-> TRUE, rates |-> NoRates]

\* float(rates.get(k, defaults[k]))
rate_of(table, k) ==
    IF k \in DOMAIN table THEN float(table[k]) ELSE Converted(defaults[k])

\* The dict comprehension over the keys of defaults, from the i-th key on: a
\* ValueError is caught and gives the defaults, a TypeError leaves
\* load_pricing.
RECURSIVE rates_from(_, _, _)
rates_from(table, i, acc) ==
    IF i > Len(RateKeys) THEN PricingReturned(acc)
    ELSE LET k == RateKeys[i]
             f == rate_of(table, k)
         IN  IF f.error = "ValueError" THEN PricingReturned(defaults)
             ELSE IF f.error = "TypeError" THEN PricingRaised
             ELSE rates_from(table, i + 1,
                             [j \in DOMAIN acc \cup {k} |->
                                 IF j = k THEN f.value ELSE acc[j]])

\* pricing.json: absent, not JSON, a JSON array, or a JSON object without a
\* rates_per_million_tokens member or with one that is null, an array or
\* an object (table) of rates.
PricingDoc(shape, table) == [shape |-> shape, table |-> table]

NoTable == [k \in {} |-> JsonNull]

\* load_pricing(): the defaults when the file cannot be read or parsed;
\* data.get and rates.get raise AttributeError on what is not an object.
load_pricing(doc) ==
    IF doc.shape \in {"absent", "unparseable"} THEN PricingReturned(defaults)
    ELSE IF doc.shape \in {"array", "table_null", "table_array"} THEN PricingRaised
    ELSE rates_from(doc.table, 1, NoRates)

\* compute_token_cost with the cache writes priced as cache reads.
compute_token_cost_cache_read(t, rates) ==
    t.input_tokens * rates.input
    + t.output_tokens * rates.output
    + t.cache_creation_tokens * rates.cache_read
    + t.cache_read_tokens * rates.cache_read

\* compute_token_cost(t, rates), times 100 * 1,000,000: rates are in
\* hundredths and the division by the unit volume is left to the reader.
compute_token_cost(t, rates) ==
    t.input_tokens * rates.input
    + t.output_tokens * rates.output
    + t.cache_creation_tokens * rates.cache_write
    + t.cache_read_tokens * rates.cache_read

NoCosts == [c \in {} |-> 0]

\* The rate values of the model: a number, a numeric text, a text that is
\* no number, null.
RateValues ==
    {JsonNumber(300), JsonString(<<"2", ".", "5">>), JsonString(<<"a", "b", "c">>),
     JsonNull}

RateKeySet == {RateKeys[i] : i \in 1..Len(RateKeys)}

RateTables == UNION {[K -> RateValues] : K \in SUBSET RateKeySet}

PricingDocs ==
    {PricingDoc(shape, NoTable) :
        shape \in {"absent", "unparseable", "array", "table_null", "table_array"}}
    \cup {PricingDoc("table", t) : t \in RateTables}

\* The pricing documents of the dashboards of whole logs: none, and a table
\* of four rates.
MeteredDocs ==
    {PricingDoc("absent", NoTable),
     PricingDoc("table", [k \in RateKeySet |->
         JsonNumber(IF k = "input" THEN 300 ELSE IF k = "output" THEN 1500
                    ELSE IF k = "cache_write" THEN 375 ELSE 30)])}

\* The months a dashboard is generated for.
DashboardMonths == {FormatMonth(2025, 6), FormatMonth(2025, 7)}

\* ---------------------------------------------------- the session handler
FIELDNAMES ==
    <<"date", "time_utc", "project_code", "cwd", "session_id", "input_tokens",
      "output_tokens", "cache_creation_tokens", "cache_read_tokens">>

\* now.strftime("%Y-%m-%d") of the days of the clock, and "%H:%M:%S".
Days == <<"2025-06-30", "2025-07-01", "2025-07-02", "2025-07-03">>

TimeOfDay == "12:00:00"

\* The working directories: os.getcwd(), the names of the directories, and
\* the stripped text of .claude/project-code.txt where there is one (that of
\* /p/b is blank).
Getcwd == "/home"

DirName == ("/p/a" :> "a") @@ ("/p/b" :> "b") @@ ("/home" :> "home")

ProjectCodeTxt == ("/p/a" :> "A") @@ ("/p/b" :> "")

get_project_code(cwd) ==
    IF cwd \in DOMAIN ProjectCodeTxt /\ ProjectCodeTxt[cwd] # ""
    THEN ProjectCodeTxt[cwd]
    ELSE DirName[cwd]

\* The lines of a transcript: blank, not JSON, a JSON array, an object
\* without a message, with a message that is text, with a message without
\* usage, and with a usage object (each count a number, null or absent).
TranscriptLine(kind, usage) == [kind |-> kind, usage |-> usage]

NoUsage == [k \in {} |-> JsonNull]

UsageKeys ==
    <<"input_tokens", "output_tokens", "cache_creation_input_tokens",
      "cache_read_input_tokens">>

UsageKeySet == {UsageKeys[i] : i \in 1..Len(UsageKeys)}

ZeroUsage == [k \in UsageKeySet |-> 0]

UsageRead(usage) == [raised |-> FALSE, usage |-> usage]

\* An exception read_usage_from_transcript does not catch.
UsageRaised == [raised |-> TRUE, usage |-> ZeroUsage]

\* totals[k] += usage.get(k, 0) from the i-th key on.
RECURSIVE add_usage(_, _, _)
add_usage(tot, usage, i) ==
    IF i > Len(UsageKeys) THEN UsageRead(tot)
    ELSE LET k == UsageKeys[i]
         IN  IF k \notin DOMAIN usage THEN add_usage(tot, usage, i + 1)
             ELSE IF usage[k].kind # "number" THEN UsageRaised
             ELSE add_usage([tot EXCEPT ![k] = @ + usage[k].num], usage, i + 1)

\* The loop over the lines of the transcript.
RECURSIVE usage_from(_, _, _)
usage_from(lines, i, tot) ==
    IF i > Len(lines) THEN UsageRead(tot)
    ELSE IF lines[i].kind \in {"blank", "garbage", "no_message", "text_message", "no_usage"}
         THEN usage_from(lines, i + 1, tot)
    ELSE IF lines[i].kind = "array" THEN UsageRaised
    ELSE IF lines[i].usage = NoUsage THEN usage_from(lines, i + 1, tot)
    ELSE LET added == add_usage(tot, lines[i].usage, 1)
         IN  IF added.raised THEN UsageRaised
             ELSE usage_from(lines, i + 1, added.usage)

TranscriptFile(exists, readable, lines) ==
    [exists |-> exists, readable |-> readable, lines |-> lines]

UsageLine(input, output) ==
    TranscriptLine("usage",
        ("input_tokens" :> input) @@ ("output_tokens" :> output))

\* The transcripts of the model.
Transcripts ==
    ("/t/ok" :> TranscriptFile(TRUE, TRUE,
        <<UsageLine(JsonNumber(5), JsonNumber(2)),
          TranscriptLine("garbage", NoUsage), TranscriptLine("blank", NoUsage),
          TranscriptLine("no_message", NoUsage), TranscriptLine("text_message", NoUsage),
          TranscriptLine("no_usage", NoUsage),
          TranscriptLine("usage", ("cache_read_input_tokens" :> JsonNumber(3)))>>))
    @@ ("/t/missing" :> TranscriptFile(FALSE, FALSE, <<>>))
    @@ ("/t/locked" :> TranscriptFile(TRUE, FALSE, <<>>))
    @@ ("/t/array" :> TranscriptFile(TRUE, TRUE,
        <<UsageLine(JsonNumber(5), JsonNumber(2)), TranscriptLine("array", NoUsage)>>))
    @@ ("/t/null" :> TranscriptFile(TRUE, TRUE,
        <<UsageLine(JsonNull, JsonNumber(2))>>))

\* read_usage_from_transcript(transcript_path): zeros for a transcript that
\* does not exist or cannot be opened.
read_usage_from_transcript(transcript_path) ==
    LET t == Transcripts[transcript_path]
    IN  IF ~t.exists THEN UsageRead(ZeroUsage)
        ELSE IF ~t.readable THEN UsageRead(ZeroUsage)
        ELSE usage_from(t.lines, 1, ZeroUsage)

\* The event on stdin: text that is not JSON, a JSON array, or a JSON object
\* (payload) of some of cwd, transcript_path and session_id.
Event(stdin, payload) == [stdin |-> stdin, payload |-> payload]

NoPayload == [k \in {} |-> JsonNull]

Payload(cwd, transcript_path, session_id) ==
    ("cwd" :> cwd) @@ ("transcript_path" :> transcript_path)
    @@ ("session_id" :> session_id)

\* payload.get(key, default)
get(payload, key, default) == IF key \in DOMAIN payload THEN payload[key] ELSE default

NoRow ==
    [date |-> "", time_utc |-> "", project_code |-> "", cwd |-> "", session_id |-> "",
     input_tokens |-> 0, output_tokens |-> 0, cache_creation_tokens |-> 0,
     cache_read_tokens |-> 0]

Built(r) == [raised |-> FALSE, row |-> r]

\* An exception that leaves main before the row is written.
Aborted == [raised |-> TRUE, row |-> NoRow]

\* main up to the row: payload.get on what is not an object raises
\* AttributeError, an exception of read_usage_from_transcript leaves main,
\* and Path(cwd) of a null cwd raises TypeError.
build_row(ev, day) ==
    IF ev.stdin = "array" THEN Aborted
    ELSE LET payload == IF ev.stdin = "unparseable" THEN NoPayload ELSE ev.payload
             cwd == get(payload, "cwd", JsonString(Getcwd))
             transcript_path == get(payload, "transcript_path", JsonString(""))
             read == IF transcript_path.kind = "string" /\ transcript_path.text # ""
                     THEN read_usage_from_transcript(transcript_path.text)
                     ELSE UsageRead(ZeroUsage)
         IN  IF read.raised \/ cwd.kind # "string" THEN Aborted
             ELSE Built([date |-> Days[day], time_utc |-> TimeOfDay,
                         project_code |-> get_project_code(cwd.text),
                         cwd |-> cwd.text,
                         session_id |-> get(payload, "session_id", JsonString("")).text,
                         input_tokens |-> read.usage["input_tokens"],
                         output_tokens |-> read.usage["output_tokens"],
                         cache_creation_tokens |->
                             read.usage["cache_creation_input_tokens"],
                         cache_read_tokens |-> read.usage["cache_read_input_tokens"]])

\* writer.writerow(row): the cells in the order of FIELDNAMES.
writerow(r) ==
    <<r.date, r.time_utc, r.project_code, r.cwd, r.session_id,
      ToString(r.input_tokens), ToString(r.output_tokens),
      ToString(r.cache_creation_tokens), ToString(r.cache_read_tokens)>>

CsvFile(exists, lines) == [exists |-> exists, lines |-> lines]

NoCsv == CsvFile(FALSE, <<>>)

write_header(file) == ~file.exists

\* LOG_FILE.open("a"): the header when the file is new, and the row.
append_row(file, r) ==
    CsvFile(TRUE, file.lines
                  \o (IF write_header(file) THEN <<FIELDNAMES>> ELSE <<>>)
                  \o <<writerow(r)>>)

\* csv.DictReader: the lines under the first as mappings from its cells.
DictReader(file) ==
    IF ~file.exists \/ file.lines = <<>> THEN <<>>
    ELSE LET header == file.lines[1]
         IN  [i \in 1..(Len(file.lines) - 1) |->
                 [f \in {header[j] : j \in 1..Len(header)} |->
                     file.lines[i + 1][CHOOSE j \in 1..Len(header) : header[j] = f]]]

\* projects.json: absent, a JSON object of entries, a JSON array, or text
\* that is not JSON (such as a truncated document).
RegistryFile(kind, entries) == [kind |-> kind, entries |-> entries]

RegistryEntry(cwd, last_seen) == [cwd |-> cwd, last_seen |-> last_seen]

NoEntries == [c \in {} |-> RegistryEntry("", "")]

NoRegistry == RegistryFile("absent", NoEntries)

Truncated == RegistryFile("garbage", NoEntries)

Upserted(file) == [raised |-> FALSE, failed |-> "", file |-> file]

\* An except clause for OSError alone: other exceptions leave the function.
except_OSError(step, file) ==
    [raised |-> step \in {"parse", "assign"}, failed |-> step, file |-> file]

\* except Exception: pass
except_Exception(step, file) == [raised |-> FALSE, failed |-> step, file |-> file]

\* The environment of an upsert: no fault, read_text fails, write_text
\* cannot open the file, or write_text fails after it has truncated it.
Faults == {"none", "read", "open", "write"}

\* update_project_registry(project_code, cwd) on the day of the clock.
update_project_registry(file, project_code, cwd, day, fault) ==
    IF file.kind # "absent" /\ fault = "read" THEN except_Exception("read", file)
    ELSE IF file.kind = "garbage" THEN except_Exception("parse", file)
    ELSE IF file.kind = "array" THEN except_Exception("assign", file)
    ELSE LET reg == file.entries
             updated == [c \in DOMAIN reg \cup {project_code} |->
                            IF c = project_code THEN RegistryEntry(cwd, Days[day])
                            ELSE reg[c]]
         IN  IF fault = "open" THEN except_Exception("write", file)
             ELSE IF fault = "write" THEN except_Exception("write", Truncated)
             ELSE Upserted(RegistryFile("object", updated))

Loaded(kind, entries) == [kind |-> kind, entries |-> entries]

\* No call of load_project_registry yet.
NotLoaded == Loaded("none", NoEntries)

\* The fallback of load_project_registry: the rows of the log in order, each
\* with a code and a cwd setting the entry of its code.
RECURSIVE registry_from(_, _, _)
registry_from(rows, i, reg) ==
    IF i > Len(rows) THEN reg
    ELSE LET code == rows[i].project_code
             cwd == rows[i].cwd
         IN  IF code # "" /\ cwd # ""
             THEN registry_from(rows, i + 1,
                      [c \in DOMAIN reg \cup {code} |->
                          IF c = code THEN RegistryEntry(cwd, rows[i].date)
                          ELSE reg[c]])
             ELSE registry_from(rows, i + 1, reg)

load_fallback(log) == registry_from(DictReader(log), 1, NoEntries)

\* load_project_registry() of report.py: what json.loads gives when the
\* registry file parses, else the mapping rebuilt from the log.
load_project_registry(file, log) ==
    IF file.kind \in {"object", "array"} THEN Loaded(file.kind, file.entries)
    ELSE Loaded("object", load_fallback(log))

\* The events of the model: two sessions of projects with a transcript that
\* is read, is missing or cannot be opened; transcripts with a line that is
\* a JSON array and with a null count; a null cwd; an object without
\* fields; stdin that is not JSON; and stdin that is a JSON array.
Events ==
    {Event("object", Payload(JsonString("/p/a"), JsonString("/t/ok"), JsonString("s1"))),
     Event("object", Payload(JsonString("/p/b"), JsonString("/t/missing"), JsonString("s2"))),
     Event("object", Payload(JsonString("/p/b"), JsonString("/t/locked"), JsonString("s2"))),
     Event("object", Payload(JsonString("/p/a"), JsonString("/t/array"), JsonString("s1"))),
     Event("object", Payload(JsonString("/p/a"), JsonString("/t/null"), JsonString("s1"))),
     Event("object", Payload(JsonNull, JsonString("/t/ok"), JsonString("s1"))),
     Event("object", NoPayload),
     Event("unparseable", NoPayload),
     Event("array", NoPayload)}

NoEvent == Event("none", NoPayload)

\* The registry files a behaviour starts with.
OldRegistry ==
    RegistryFile("object",
        ("A" :> RegistryEntry("/old/a", Days[1])) @@ ("C" :> RegistryEntry("/p/c", Days[1])))

RegistryFiles ==
    {NoRegistry, OldRegistry, RegistryFile("array", NoEntries), Truncated}

\* The rows of a log of any contents: of no project, of A and of B; without
\* a cwd on the second day, from /p/a on the first day and from /p/a2 on the
\* second.
AnyRows ==
    {<<p[2], TimeOfDay, code, p[1], "", "0", "0", "0", "0">> :
        code \in {"", "A", "B"},
        p \in {<<"", Days[2]>>, <<"/p/a", Days[1]>>, <<"/p/a2", Days[2]>>}}

AnyLogs ==
    {NoCsv} \cup
    {CsvFile(TRUE, <<FIELDNAMES>> \o r) :
        r \in UNION {[1..n -> AnyRows] : n \in 0..MaxLogRows}}

NoReport == [ran |-> FALSE, raised |-> FALSE, rows |-> 0]

\* ------------------------------------------------------------ the machine
InitExpenses ==
    /\ billing \in Billings
    /\ period = 0
    /\ month = <<>>
    /\ result = Returned(<<>>)
    /\ history = <<>>

InitUsage ==
    /\ logfile \in LogFiles
    /\ sessions = <<>>
    /\ totals = NoTotals
    /\ shared_cost = 0
    /\ allocation = NoAllocation

NoDashboard ==
    /\ pricing = PricingReturned(NoRates)
    /\ costs = NoCosts

\* The report of the next calendar month, k, for that month.
Report(k) ==
    /\ k = period + 1
    /\ period' = k
    /\ month' = PeriodText(k)
    /\ result' = compute_month_expenses(billing, month')
    /\ history' = Append(history, result')
    /\ UNCHANGED <<billing, usage_vars, dashboard_vars, session_vars>>

\* The usage side of a report: the sessions of the month filter, summarized.
UsageReport(mon) ==
    /\ sessions' = load_sessions(logfile, mon)
    /\ totals' = summarize(sessions')
    /\ shared_cost' = 0
    /\ allocation' = NoAllocation
    /\ UNCHANGED <<logfile, expense_vars, dashboard_vars, session_vars>>

\* A shared cost allocated over the totals of the last report.
Allocate(cost) ==
    /\ shared_cost' = cost
    /\ allocation' = allocate(cost, totals)
    /\ UNCHANGED <<logfile, sessions, totals, expense_vars, dashboard_vars, session_vars>>

\* generate_readme(month) up to the token table: the sessions of the month
\* summarized, the rates loaded, and the cost of every project with
\* sessions; an exception of load_pricing ends it (main drops it).
GenerateReadme(mon) ==
    /\ sessions' = load_sessions(logfile, mon)
    /\ totals' = summarize(sessions')
    /\ pricing' = load_pricing(pricing_doc)
    /\ costs' = IF pricing'.raised THEN NoCosts
                ELSE [c \in DOMAIN totals' |->
                         compute_token_cost(totals'[c], pricing'.rates)]
    /\ UNCHANGED <<logfile, shared_cost, allocation, pricing_doc, expense_vars, session_vars>>

NoExpenses ==
    /\ billing = <<>> /\ period = 0 /\ month = <<>> /\ result = Returned(<<>>)
    /\ history = <<>>

NoSession ==
    /\ sessions_csv = NoCsv /\ projects_json = NoRegistry /\ today = 1
    /\ pc = "idle" /\ run = 0 /\ event = NoEvent /\ session_row = NoRow
    /\ upsert = "none" /\ written = <<>> /\ upserted = {} /\ finished = {}
    /\ report = NoReport /\ registry = NotLoaded

NoUsageReport ==
    /\ logfile = NoLog /\ sessions = <<>> /\ totals = NoTotals
    /\ shared_cost = 0 /\ allocation = NoAllocation
    /\ pricing_doc = PricingDoc("absent", NoTable) /\ NoDashboard

\* Where main writes the row and where it calls update_project_registry.
at_append(p) == p = "row"

\* The upsert called before the row is written.
at_upsert_first(p) == p = "row"

at_upsert(p) == p = "logged"

\* main of log_session.py from stdin to the row.
ReadPayload(ev) ==
    /\ pc = "idle" /\ run < MaxRuns
    /\ run' = run + 1
    /\ event' = ev
    /\ LET b == build_row(ev, today)
       IN  /\ session_row' = b.row
           /\ pc' = IF b.raised THEN "aborted" ELSE "row"
    /\ upsert' = "none"
    /\ UNCHANGED <<sessions_csv, projects_json, today, written, upserted, finished,
                   report, registry, expense_vars, usage_vars, dashboard_vars>>

\* The row appended to sessions.csv.
AppendRow ==
    /\ at_append(pc)
    /\ sessions_csv' = append_row(sessions_csv, session_row)
    /\ written' = Append(written, [run |-> run, row |-> session_row])
    /\ pc' = "logged"
    /\ UNCHANGED <<projects_json, today, run, event, session_row, upsert, upserted,
                   finished, report, registry, expense_vars, usage_vars,
                   dashboard_vars>>

\* update_project_registry(row["project_code"], cwd) under a fault of the
\* environment.
UpdateRegistry(fault) ==
    /\ at_upsert(pc)
    /\ LET u == update_project_registry(projects_json, session_row.project_code,
                                        session_row.cwd, today, fault)
       IN  /\ projects_json' = u.file
           /\ upsert' = IF u.failed = "" THEN "ok" ELSE u.failed
           /\ pc' = IF u.raised THEN "aborted" ELSE "done"
    /\ upserted' = upserted \cup {run}
    /\ UNCHANGED <<sessions_csv, today, run, event, session_row, written, finished,
                   report, registry, expense_vars, usage_vars, dashboard_vars>>

\* The handler process ends, normally or with a traceback, and with it its
\* payload and row.
Exit ==
    /\ pc \in {"done", "aborted"}
    /\ pc' = "idle"
    /\ finished' = IF pc = "done" THEN finished \cup {run} ELSE finished
    /\ event' = NoEvent /\ session_row' = NoRow /\ upsert' = "none"
    /\ UNCHANGED <<sessions_csv, projects_json, today, run, written, upserted,
                   report, registry, expense_vars, usage_vars, dashboard_vars>>

\* The clock passes midnight: between two runs, or between the date of the
\* row and the date of the upsert (the only places that tell the days of a
\* behaviour apart).
Midnight ==
    /\ pc \in {"idle", "logged"}
    /\ today < NumDays
    /\ today' = today + 1
    /\ UNCHANGED <<sessions_csv, projects_json, pc, run, event, session_row, upsert,
                   written, upserted, finished, report, registry, expense_vars,
                   usage_vars, dashboard_vars>>

\* A report generated between handler runs: it reads the log and the
\* registry, and its expense or pricing computation may raise.
GenerateReport(raises) ==
    /\ pc = "idle"
    /\ registry' = load_project_registry(projects_json, sessions_csv)
    /\ report' = [ran |-> TRUE, raised |-> raises,
                  rows |-> Len(DictReader(sessions_csv))]
    /\ UNCHANGED <<sessions_csv, projects_json, today, pc, run, event, session_row,
                   upsert, written, upserted, finished, expense_vars, usage_vars,
                   dashboard_vars>>

\* load_project_registry() on a log and a registry file.
LoadRegistry ==
    /\ registry' = load_project_registry(projects_json, sessions_csv)
    /\ UNCHANGED <<sessions_csv, projects_json, today, pc, run, event, session_row,
                   upsert, written, upserted, finished, report, expense_vars,
                   usage_vars, dashboard_vars>>


\* The expenses of one project, resolved month after month.
Init ==
    /\ InitExpenses
    /\ logfile = NoLog /\ sessions = <<>> /\ totals = NoTotals
    /\ shared_cost = 0 /\ allocation = NoAllocation
    /\ pricing_doc = PricingDoc("absent", NoTable) /\ NoDashboard
    /\ NoSession

Next == \E k \in 1..NumPeriods : Report(k)

Spec == Init /\ [][Next]_vars

\* The usage log, summarized and allocated.
UsageInit ==
    /\ InitUsage
    /\ billing = <<>> /\ period = 0 /\ month = <<>> /\ result = Returned(<<>>)
    /\ history = <<>>
    /\ pricing_doc = PricingDoc("absent", NoTable) /\ NoDashboard
    /\ NoSession

UsageNext ==
    \/ \E mon \in MonthFilters : UsageReport(mon)
    \/ \E cost \in SharedCosts : Allocate(cost)

SpecUsage == UsageInit /\ [][UsageNext]_vars

\* The dashboard: every log with the pricing documents of whole logs, and
\* every pricing document with the log of one session.
OneSessionLog ==
    [exists |-> TRUE,
     rows |-> <<LogRow(Iso(2025, 6, 30), "A",
                       <<Cell(300), Cell(100), Cell(7), Cell(9)>>)>>]

DashboardInit ==
    /\ \/ logfile \in LogFiles /\ pricing_doc \in MeteredDocs
       \/ logfile = OneSessionLog /\ pricing_doc \in PricingDocs
    /\ sessions = <<>> /\ totals = NoTotals
    /\ shared_cost = 0 /\ allocation = NoAllocation
    /\ NoDashboard
    /\ NoExpenses
    /\ NoSession

DashboardNext == \E mon \in DashboardMonths : GenerateReadme(mon)

SpecDashboard == DashboardInit /\ [][DashboardNext]_vars

\* The session-completion handler, run after run from no log, and the
\* reports between the runs.
SessionInit ==
    /\ sessions_csv = NoCsv
    /\ projects_json \in RegistryFiles
    /\ today = 1
    /\ pc = "idle" /\ run = 0 /\ event = NoEvent /\ session_row = NoRow
    /\ upsert = "none" /\ written = <<>> /\ upserted = {} /\ finished = {}
    /\ report = NoReport /\ registry = NotLoaded
    /\ NoUsageReport
    /\ NoExpenses

SessionNext ==
    \/ \E ev \in Events : ReadPayload(ev)
    \/ AppendRow
    \/ \E fault \in Faults : UpdateRegistry(fault)
    \/ Exit
    \/ Midnight
    \/ \E raises \in BOOLEAN : GenerateReport(raises)

SpecSession == SessionInit /\ [][SessionNext]_vars

\* load_project_registry on a log of any contents, with the registry file
\* absent, unparseable or present.
RegistryInit ==
    /\ sessions_csv \in AnyLogs
    /\ projects_json \in {NoRegistry, Truncated, OldRegistry}
    /\ today = 1
    /\ pc = "idle" /\ run = 0 /\ event = NoEvent /\ session_row = NoRow
    /\ upsert = "none" /\ written = <<>> /\ upserted = {} /\ finished = {}
    /\ report = NoReport /\ registry = NotLoaded
    /\ NoUsageReport
    /\ NoExpenses

RegistryNext == LoadRegistry

SpecRegistry == RegistryInit /\ [][RegistryNext]_vars

\* ------------------------------------------------- reading a reached state
Reported == period > 0

\* The index of the target period of the last report, its month count
\* (year * 12 + month number) and its month number.
Target == period

MonthCount(k) == PeriodAt(k)[1] * 12 + PeriodAt(k)[2]

TargetCount == MonthCount(Target)

TargetMonthNum == PeriodAt(Target)[2]

\* The calendar day a well-formed date string of the model names.
ModelDays == {StartA, StartB, EndA, PaidA}

ModelIso == [t \in ModelDays |-> IsoOf(t)]

IsDay(s) == \E t \in ModelDays : ModelIso[t] = s

DayOf(s) == CHOOSE t \in ModelDays : ModelIso[t] = s

MonthCountOf(s) == DayOf(s)[1] * 12 + DayOf(s)[2]

MonthNumOf(s) == DayOf(s)[2]

Items == 1..Len(billing)

\* Every date field of the billing document is absent or a calendar day.
ValidDates ==
    \A i \in Items :
        LET e == billing[i]
        IN  IF e.type = "one-time" THEN IsDay(e.date)
            ELSE /\ e.start_date = Missing \/ IsDay(e.start_date)
                 /\ e.end_date = Missing \/ IsDay(e.end_date)

\* The rows a call returned for the i-th expense.
RowsOf(res, i) == SelectSeq(res.rows, LAMBDA r : r.description = Descriptions[i])

RECURSIVE TotalDue(_)
TotalDue(rows) ==
    IF rows = <<>> THEN 0 ELSE rows[1].amount_due + TotalDue(Tail(rows))

IsRecurring(e, freq) ==
    e.type = "recurring" /\ e.frequency = freq /\ IsDay(e.start_date)

\* Months from the start month of e to period k.
ElapsedAt(e, k) == MonthCount(k) - MonthCountOf(e.start_date)

NotEndedAt(e, k) ==
    e.end_date = Missing \/ MonthCount(k) <= MonthCountOf(e.end_date)

InWindowAt(e, k) == ElapsedAt(e, k) >= 0 /\ NotEndedAt(e, k)

\* ------------------------------------------------------------------ claims

\* C1: a one-time expense dated in month M has exactly one row, with
\* amount_due = amount, in the result for period M, and no row at all in the
\* result for any other period.
C1_OneTime ==
    (Reported /\ ValidDates) =>
        /\ ~result.raised
        /\ \A i \in Items :
             billing[i].type = "one-time" =>
                 LET rows == RowsOf(result, i)
                 IN  IF MonthCountOf(billing[i].date) = TargetCount
                     THEN Len(rows) = 1 /\ rows[1].amount_due = billing[i].amount
                     ELSE rows = <<>>

\* Two one-time expenses, the report for the month of the first only.
C1_Witness ==
    /\ Reported /\ ValidDates /\ Len(billing) = 2
    /\ billing[1].type = "one-time" /\ billing[2].type = "one-time"
    /\ MonthCountOf(billing[1].date) = TargetCount
    /\ MonthCountOf(billing[2].date) # TargetCount
    /\ Len(result.rows) = 1
    /\ result.rows[1].amount_due = 50000

\* C2: a recurring expense with a start_date has a row in the result exactly
\* when the period is not before the start month and not after the end month,
\* the end month itself being inside the window.
C2_Window ==
    (Reported /\ ValidDates) =>
        /\ ~result.raised
        /\ \A i \in Items :
             (billing[i].type = "recurring" /\ IsDay(billing[i].start_date)) =>
                 /\ Len(RowsOf(result, i)) <= 1
                 /\ RowsOf(result, i) # <<>> <=> InWindowAt(billing[i], Target)

\* The report for the end month of an expense, which still has its row.
C2_Witness ==
    /\ Reported /\ ValidDates
    /\ \E i \in Items :
         /\ billing[i].type = "recurring" /\ IsDay(billing[i].start_date)
         /\ billing[i].end_date # Missing
         /\ MonthCountOf(billing[i].end_date) = TargetCount
         /\ Len(RowsOf(result, i)) = 1

\* C3: a recurring monthly expense is due for its amount in every period of
\* its window and adds nothing to the total of a period outside it.
C3_Monthly ==
    (Reported /\ ValidDates) =>
        \A i \in Items :
            IsRecurring(billing[i], "monthly") =>
                LET rows == RowsOf(result, i)
                IN  IF InWindowAt(billing[i], Target)
                    THEN Len(rows) = 1 /\ rows[1].amount_due = billing[i].amount
                    ELSE TotalDue(rows) = 0

\* A monthly expense of a positive amount, due two months after its start.
C3_Witness ==
    /\ Reported /\ ValidDates
    /\ \E i \in Items :
         /\ IsRecurring(billing[i], "monthly")
         /\ ElapsedAt(billing[i], Target) = 2
         /\ RowsOf(result, i) # <<>>
         /\ RowsOf(result, i)[1].amount_due = 30000

\* C4 as stated: in each of the 12 periods from the start month a quarterly
\* expense has a row, with amount_due > 0 exactly when the months elapsed
\* are a multiple of 3.
C4_Original ==
    (Reported /\ ValidDates) =>
        \A i \in Items :
            (IsRecurring(billing[i], "quarterly")
                /\ ElapsedAt(billing[i], Target) \in 0..11) =>
                    LET rows == RowsOf(result, i)
                    IN  /\ Len(rows) = 1
                        /\ rows[1].amount_due > 0 <=> ElapsedAt(billing[i], Target) % 3 = 0

\* C4: in each of the 12 periods from the start month that is not after the
\* end month, a quarterly expense has a row whose amount_due is the amount
\* when the months elapsed are a multiple of 3 and 0 otherwise; so for a
\* positive amount amount_due > 0 exactly in those periods.
C4_Quarterly ==
    (Reported /\ ValidDates) =>
        \A i \in Items :
            (IsRecurring(billing[i], "quarterly")
                /\ ElapsedAt(billing[i], Target) \in 0..11
                /\ NotEndedAt(billing[i], Target)) =>
                    LET rows == RowsOf(result, i)
                        cycle == ElapsedAt(billing[i], Target) % 3 = 0
                    IN  /\ Len(rows) = 1
                        /\ rows[1].amount_due = IF cycle THEN billing[i].amount ELSE 0
                        /\ billing[i].amount > 0 => (rows[1].amount_due > 0 <=> cycle)

\* A quarterly expense started in November, due in the next year's February.
C4_Witness ==
    /\ Reported /\ ValidDates
    /\ \E i \in Items :
         /\ IsRecurring(billing[i], "quarterly")
         /\ ElapsedAt(billing[i], Target) = 3
         /\ TargetMonthNum < MonthNumOf(billing[i].start_date)
         /\ RowsOf(result, i) # <<>>
         /\ RowsOf(result, i)[1].amount_due = 30000

\* The periods p whose 12 periods p .. p + 11 have all been reported.
YearStarts == 1..(period - 11)

\* The periods among p .. p + 11 whose month number is the start month
\* number of e.
Anniversaries(e, p) ==
    {k \in p..(p + 11) : PeriodAt(k)[2] = MonthNumOf(e.start_date)}

\* The 12 periods from p on lie inside the window of e.
YearInWindow(e, p) == InWindowAt(e, p) /\ NotEndedAt(e, p + 11)

RenewsStart(e) == <<"[renews ", MonthAbbr[MonthNumOf(e.start_date)], "]">>

\* C5 as stated: in 12 consecutive periods inside its window a yearly
\* expense has amount_due > 0 in exactly one, the one of the start month
\* number, and in each of the others a row with amount_due = 0 and a note
\* naming the start month.
C5_Original ==
    ValidDates =>
        \A i \in Items : \A p \in YearStarts :
            (IsRecurring(billing[i], "yearly") /\ YearInWindow(billing[i], p)) =>
                LET e == billing[i]
                    due == {k \in p..(p + 11) :
                              /\ RowsOf(history[k], i) # <<>>
                              /\ RowsOf(history[k], i)[1].amount_due > 0}
                IN  /\ Cardinality(due) = 1
                    /\ due = Anniversaries(e, p)
                    /\ \A k \in (p..(p + 11)) \ due :
                         /\ Len(RowsOf(history[k], i)) = 1
                         /\ RowsOf(history[k], i)[1].amount_due = 0
                         /\ RowsOf(history[k], i)[1].note = RenewsStart(e)

\* C5: in 12 consecutive periods inside its window a yearly expense has a
\* row in each; exactly one of the 12 has the start month number, and there
\* amount_due is the amount (so > 0 for a positive amount); in each of the
\* other eleven amount_due = 0 and the note names the start month.
C5_Yearly ==
    ValidDates =>
        \A i \in Items : \A p \in YearStarts :
            (IsRecurring(billing[i], "yearly") /\ YearInWindow(billing[i], p)) =>
                LET e == billing[i]
                IN  /\ Cardinality(Anniversaries(e, p)) = 1
                    /\ \A k \in p..(p + 11) :
                         LET rows == RowsOf(history[k], i)
                         IN  /\ Len(rows) = 1
                             /\ IF k \in Anniversaries(e, p)
                                THEN rows[1].amount_due = e.amount
                                ELSE /\ rows[1].amount_due = 0
                                     /\ rows[1].note = RenewsStart(e)
                    /\ e.amount > 0 =>
                         {k \in p..(p + 11) : RowsOf(history[k], i)[1].amount_due > 0}
                             = Anniversaries(e, p)

\* Twelve reports from December on for a yearly expense of a positive
\* amount started in November: eleven rows that name November, then the
\* row of the anniversary, due.
C5_Witness ==
    /\ ValidDates
    /\ \E i \in Items :
         /\ IsRecurring(billing[i], "yearly") /\ billing[i].amount > 0
         /\ 3 \in YearStarts /\ YearInWindow(billing[i], 3)
         /\ ElapsedAt(billing[i], 3) = 1
         /\ RowsOf(history[3], i) # <<>>
         /\ RowsOf(history[3], i)[1].amount_due = 0
         /\ RowsOf(history[3], i)[1].note = <<"[renews ", "Nov", "]">>
         /\ RowsOf(history[14], i) # <<>>
         /\ RowsOf(history[14], i)[1].amount_due = 30000

\* C6: for a quarterly expense not due in a period P of its window, the note
\* names the month 3 - (elapsed mod 3) months after P, wrapping after
\* December, and that month is the first period after P in which the row of
\* the expense is a due row (one without a note).
C6_QuarterlyNote ==
    ValidDates =>
        \A i \in Items : \A p \in 1..period :
            (IsRecurring(billing[i], "quarterly")
                /\ InWindowAt(billing[i], p)
                /\ ElapsedAt(billing[i], p) % 3 # 0) =>
                    LET e == billing[i]
                        rows == RowsOf(history[p], i)
                        until == 3 - (ElapsedAt(e, p) % 3)
                    IN  /\ Len(rows) = 1
                        /\ rows[1].note
                             = <<"[next: ", MonthAbbr[PeriodAt(p + until)[2]], "]">>
                        /\ \A k \in (p + 1)..(p + until) :
                             (k <= period /\ InWindowAt(e, k)) =>
                                 /\ Len(RowsOf(history[k], i)) = 1
                                 /\ RowsOf(history[k], i)[1].note = <<>> <=> k = p + until

\* A quarterly expense started in November: the December report names
\* February, and the February report that followed has the due row.
C6_Witness ==
    /\ ValidDates /\ period >= 5
    /\ \E i \in Items :
         /\ IsRecurring(billing[i], "quarterly")
         /\ PeriodAt(3)[2] = 12
         /\ RowsOf(history[3], i) # <<>>
         /\ RowsOf(history[3], i)[1].note = <<"[next: ", "Feb", "]">>
         /\ RowsOf(history[3], i)[1].amount_due = 0
         /\ RowsOf(history[5], i) # <<>>
         /\ RowsOf(history[5], i)[1].note = <<>>
         /\ RowsOf(history[5], i)[1].amount_due = 30000

\* A recurring monthly or quarterly expense whose start_date is missing or
\* malformed.
InvalidStart(e) ==
    /\ e.type = "recurring"
    /\ e.frequency \in {"monthly", "quarterly"}
    /\ ~IsDay(e.start_date)

\* C7 as stated: an expense with an invalid start_date has no row in the
\* result, the call returns, and every other expense of the list has the
\* rows it has when resolved alone.
C7_InvalidStartExcluded ==
    Reported =>
        \A i \in Items :
            InvalidStart(billing[i]) =>
                /\ ~result.raised
                /\ RowsOf(result, i) = <<>>
                /\ \A j \in Items :
                     ~InvalidStart(billing[j]) =>
                         RowsOf(result, j)
                             = compute_month_expenses(<<billing[j]>>, month).rows

\* The days of the month the variants of a billing document take.
VariantDays == {1, 28}

\* The days of the months of the model's days.
DayVariant ==
    [t \in ModelDays |-> [d \in VariantDays |-> Iso(t[1], t[2], d)]]

SetDay(s, d) == IF IsDay(s) THEN DayVariant[DayOf(s)][d] ELSE s

\* The billing documents that differ from b only in the days of the month
\* of their one-time dates, start dates and end dates.
Variants(b) ==
    {[i \in 1..Len(b) |->
        [b[i] EXCEPT !.date = SetDay(@, d),
                     !.start_date = SetDay(@, d),
                     !.end_date = SetDay(@, d)]] : d \in VariantDays}

\* A result with the note of each one-time row blanked.
BlankOneTimeNote(r) ==
    IF r.rate_label = <<"one-time">> THEN [r EXCEPT !.note = <<>>] ELSE r

Blind(res) ==
    [res EXCEPT !.rows = [n \in 1..Len(res.rows) |-> BlankOneTimeNote(res.rows[n])]]

\* C8 as stated: two expense lists that differ only in the day of a date
\* field have identical results for every target period.
C8_Original ==
    Reported =>
        \A v \in Variants(billing) : compute_month_expenses(v, month) = result

\* C8: two expense lists that differ only in the day of a date field have
\* the same result for every target period (the same rows in the same order
\* with the same description, rate_label and amount_due, and the same note
\* on every recurring row), except for the note of a one-time row, which
\* quotes the date with its day.
C8_DayIgnored ==
    Reported =>
        {Blind(compute_month_expenses(v, month)) : v \in Variants(billing)}
            \subseteq {Blind(result)}

\* A recurring expense starting on the 20th, asked for its start month: it
\* has its row although the period's first day is before the start day.
C8_Witness ==
    /\ Reported
    /\ \E i \in Items :
         /\ billing[i].type = "recurring" /\ IsDay(billing[i].start_date)
         /\ DayOf(billing[i].start_date)[3] = 20
         /\ ElapsedAt(billing[i], Target) = 0
         /\ Len(RowsOf(result, i)) = 1

\* The tenant a record is counted under.
TenantOf(r) == IF r.project_code = "" THEN "UNKNOWN" ELSE r.project_code

\* The number a token cell of the model holds; an empty cell counts 0.
CellCounts == {0, 7, 9, 50, 100, 300}

CountIn(cell) ==
    IF cell = <<>> THEN 0 ELSE CHOOSE n \in CellCounts : Cell(n) = cell

TokenClasses ==
    {"input_tokens", "output_tokens", "cache_creation_tokens", "cache_read_tokens"}

\* The sum of a token class over the records of a tenant.
RECURSIVE ClassSum(_, _, _)
ClassSum(rows, code, class) ==
    IF rows = <<>> THEN 0
    ELSE (IF TenantOf(rows[1]) = code THEN CountIn(rows[1][class]) ELSE 0)
         + ClassSum(Tail(rows), code, class)

SessionCounts == [c \in DOMAIN totals |-> totals[c].sessions]

Reorderings(rows) ==
    {[i \in 1..Len(rows) |-> rows[f[i]]] : f \in Permutations(1..Len(rows))}

\* C9: the totals of summarize have one entry per tenant code of the input
\* (a blank code under "UNKNOWN"), their session counts add up to the number
\* of records, each token class of each tenant is the sum of that class over
\* the tenant's records, every reordering of the input gives the same
\* totals, and no records give the empty mapping.
C9_Summarize ==
    /\ DOMAIN totals = {TenantOf(sessions[i]) : i \in 1..Len(sessions)}
    /\ SumOver(SessionCounts, DOMAIN totals) = Len(sessions)
    /\ \A c \in DOMAIN totals :
         \A class \in TokenClasses :
             totals[c][class] = ClassSum(sessions, c, class)
    /\ \A r \in Reorderings(sessions) : summarize(r) = totals
    /\ sessions = <<>> => totals = NoTotals

\* Three records, two of one project and one without a project code.
C9_Witness ==
    /\ Len(sessions) = 3
    /\ DOMAIN totals = {"A", "UNKNOWN"}
    /\ totals["A"].sessions = 2
    /\ totals["A"].input_tokens = 400
    /\ totals["A"].cache_read_tokens = 9
    /\ totals["UNKNOWN"].output_tokens = 50

Abs(n) == IF n < 0 THEN 0 - n ELSE n

Volumes == [c \in DOMAIN totals |-> totals[c].input_tokens + totals[c].output_tokens]

GrandTotal == SumOver(Volumes, DOMAIN totals)

Allocated == shared_cost > 0

\* C10: with a positive grand total each tenant's share is the shared cost
\* times its part of the grand total, to the cent, and the shares add up to
\* the cost within one cent per tenant; with a grand total of zero every
\* share is zero and the whole cost is reported unallocated.
C10_Allocation ==
    Allocated =>
        /\ DOMAIN allocation.shares = DOMAIN totals
        /\ IF GrandTotal > 0
           THEN /\ \A c \in DOMAIN totals :
                     Abs(allocation.shares[c] * GrandTotal - shared_cost * Volumes[c])
                         <= GrandTotal
                /\ Abs(SumOver(allocation.shares, DOMAIN totals) - shared_cost)
                     <= Cardinality(DOMAIN totals)
                /\ allocation.unallocated = 0
           ELSE /\ \A c \in DOMAIN totals : allocation.shares[c] = 0
                /\ allocation.unallocated = shared_cost

\* Project A with 100 input and 50 output tokens over two sessions, B with
\* 300 and 100 over one, and a shared cost of $100: $27.27 and $72.73.
C10_Witness ==
    /\ Allocated /\ shared_cost = 10000
    /\ DOMAIN totals = {"A", "B"}
    /\ totals["A"].sessions = 2 /\ Volumes["A"] = 150
    /\ totals["B"].sessions = 1 /\ Volumes["B"] = 400
    /\ allocation.shares["A"] = 2727
    /\ allocation.shares["B"] = 7273

\* ---------------------------------------------------------------- pricing
Dashboarded == pricing # PricingReturned(NoRates)

\* The rate a token class is priced at.
RateOfClass ==
    [input_tokens |-> "input", output_tokens |-> "output",
     cache_creation_tokens |-> "cache_write", cache_read_tokens |-> "cache_read"]

ClassCost(rows, c, class) == ClassSum(rows, c, class) * pricing.rates[RateOfClass[class]]

\* The sum over the four token classes of the tenant's count times the rate.
MeteredCost(rows, c) ==
    ClassCost(rows, c, "input_tokens") + ClassCost(rows, c, "output_tokens")
    + ClassCost(rows, c, "cache_creation_tokens") + ClassCost(rows, c, "cache_read_tokens")

OwnRecords(rows, c) == SelectSeq(rows, LAMBDA r : TenantOf(r) = c)

Without(rows, i) == SubSeq(rows, 1, i - 1) \o SubSeq(rows, i + 1, Len(rows))

CostIn(rows, c) == compute_token_cost(summarize(rows)[c], pricing.rates)

\* C11: the cost of every tenant with sessions is the sum over the four
\* token classes of its count times the class rate (per unit volume), it is
\* the cost of its own records alone, and adding a record of another tenant
\* or removing one leaves it unchanged.
C11_MeteredCost ==
    (Dashboarded /\ ~pricing.raised) =>
        /\ DOMAIN costs = DOMAIN totals
        /\ \A c \in DOMAIN costs :
            /\ costs[c] = MeteredCost(sessions, c)
            /\ costs[c] = MeteredCost(OwnRecords(sessions, c), c)
            /\ costs[c] = CostIn(OwnRecords(sessions, c), c)
            /\ \A r \in LogRows : TenantOf(r) # c => CostIn(Append(sessions, r), c) = costs[c]
            /\ \A i \in 1..Len(sessions) :
                 TenantOf(sessions[i]) # c => CostIn(Without(sessions, i), c) = costs[c]

\* Two tenants under a table of four rates: A's 300 input, 100 output, 7
\* cache-write and 9 cache-read tokens cost 0.00242895 dollars.
C11_Witness ==
    /\ Dashboarded /\ ~pricing.raised
    /\ pricing.rates.cache_write = 375
    /\ DOMAIN costs = {"A", "B"}
    /\ totals["A"].cache_creation_tokens = 7
    /\ costs["A"] = 242895
    /\ costs["B"] = 105000

\* The rate of key k that is a number, or the default of k.
RateOrDefault(doc, k) ==
    IF k \in DOMAIN doc.table /\ float(doc.table[k]).error = ""
    THEN float(doc.table[k]).value ELSE defaults[k]

\* C18: load_pricing raises nothing in any state of pricing.json, and gives
\* for each of the four token classes the rate of the document where it has
\* a numeric one and the default rate where it is missing or malformed.
C18_LoadPricing ==
    Dashboarded =>
        /\ ~pricing.raised
        /\ DOMAIN pricing.rates = RateKeySet
        /\ \A k \in RateKeySet : pricing.rates[k] = RateOrDefault(pricing_doc, k)

\* ------------------------------------------------------ the session handler
\* The runs whose record is in the log.
Logged == {written[i].run : i \in 1..Len(written)}

\* The log that holds one header and the records written, in order.
LogOf(recs) ==
    IF recs = <<>> THEN NoCsv
    ELSE CsvFile(TRUE, <<FIELDNAMES>> \o [i \in 1..Len(recs) |-> writerow(recs[i].row)])

\* C12: in every run of the handler the record is appended before the
\* upsert is attempted, and a run that ended normally has done both before
\* any report that follows; the registry is never updated for a run whose
\* record is not in the log, and a report, failing or not, leaves every
\* appended record in the log.
C12_Ordering ==
    /\ upserted \subseteq Logged
    /\ finished \subseteq upserted
    /\ pc \in {"logged", "done"} => run \in Logged
    /\ sessions_csv = LogOf(written)
    /\ report.ran => report.rows <= Len(DictReader(sessions_csv))

\* A second run has appended and upserted after a report that raised with
\* the first record in the log.
C12_Witness ==
    /\ report.ran /\ report.raised /\ report.rows = 1
    /\ finished = {1} /\ upserted = {1, 2} /\ Logged = {1, 2}
    /\ pc = "done"
    /\ Len(sessions_csv.lines) = 3

\* C13: an upsert that fails at reading, parsing or writing the registry
\* raises nothing: the handler is where a successful upsert leaves it, and
\* the record of the session is the last of the log.
C13_UpsertFailure ==
    /\ pc = "aborted" => upsert = "none"
    /\ upsert \notin {"none", "ok"} =>
        /\ pc = "done"
        /\ run \in Logged
        /\ sessions_csv.exists
        /\ sessions_csv.lines[Len(sessions_csv.lines)] = writerow(session_row)

\* The registry could not be parsed, and the handler ended normally with
\* the record in the log.
C13_Witness ==
    /\ upsert = "parse"
    /\ projects_json = Truncated
    /\ pc = "done"
    /\ session_row.project_code = "A"
    /\ sessions_csv.lines[Len(sessions_csv.lines)] = writerow(session_row)

\* The tenants with an entry in the registry file.
Tenants(file) == IF file.kind = "object" THEN DOMAIN file.entries ELSE {}

\* C14: no step removes a tenant's entry from the registry; a successful
\* upsert sets the entry of its tenant to the location and the current date
\* and leaves every other entry as it was, and the same upsert repeated on
\* the same day leaves the registry unchanged.
C14_RegistryUpsert ==
    [][/\ Tenants(projects_json) \subseteq Tenants(projects_json')
       /\ (pc = "logged" /\ upsert' = "ok") =>
            /\ Tenants(projects_json') = Tenants(projects_json) \cup {session_row.project_code}
            /\ projects_json'.entries[session_row.project_code]
                   = RegistryEntry(session_row.cwd, Days[today])
            /\ \A c \in Tenants(projects_json) \ {session_row.project_code} :
                   projects_json'.entries[c] = projects_json.entries[c]
            /\ update_project_registry(projects_json', session_row.project_code,
                                       session_row.cwd, today, "none").file
                   = projects_json']_vars

\* The record index of a date of the clock.
DayIndex(d) == CHOOSE i \in 1..Len(Days) : Days[i] = d

\* C15: with the registry absent, load_project_registry returns an entry
\* for exactly the tenant codes of the log's records that have a code and a
\* location, each with the most recent date among those records of the
\* tenant and the location of a record of that date.
C15_Fallback ==
    (registry # NotLoaded /\ projects_json.kind = "absent") =>
        LET rows == DictReader(sessions_csv)
            Mine(c) == {i \in 1..Len(rows) : rows[i].project_code = c /\ rows[i].cwd # ""}
        IN  /\ registry.kind = "object"
            /\ DOMAIN registry.entries =
                   {rows[i].project_code : i \in {j \in 1..Len(rows) :
                        rows[j].project_code # "" /\ rows[j].cwd # ""}}
            /\ \A c \in DOMAIN registry.entries :
                 \E i \in Mine(c) :
                    /\ \A j \in Mine(c) : DayIndex(rows[j].date) <= DayIndex(rows[i].date)
                    /\ registry.entries[c] = RegistryEntry(rows[i].cwd, rows[i].date)

\* The handler runs that have ended.
Ended == IF pc = "idle" THEN run ELSE run - 1

\* C16: after n session completions from no log, the log is one header row
\* followed by n records in completion order, the records written before
\* unchanged.
C16_AppendOnly ==
    pc = "idle" =>
        /\ Len(written) = Ended
        /\ \A i \in 1..Len(written) : written[i].run = i
        /\ sessions_csv = LogOf(written)

\* C17: every session-completion event, also one with a payload that is
\* not JSON, not an object, without fields, or naming a transcript that is
\* missing or unreadable, ends with exactly one record appended whose four
\* token counts are non-negative integers; what the event does not give is
\* the default (counts 0, blank session id, the code of the fallback
\* directory).
C17_Degrades ==
    pc \in {"done", "aborted"} =>
        /\ pc = "done"
        /\ Cardinality({i \in 1..Len(written) : written[i].run = run}) = 1
        /\ written[Len(written)].row = session_row
        /\ session_row.input_tokens >= 0 /\ session_row.output_tokens >= 0
        /\ session_row.cache_creation_tokens >= 0 /\ session_row.cache_read_tokens >= 0
        /\ event.payload = NoPayload =>
            /\ session_row.session_id = ""
            /\ session_row.project_code = get_project_code(Getcwd)
            /\ session_row.input_tokens = 0 /\ session_row.cache_read_tokens = 0

====
